---- MODULE Spec2Model ----
(***************************************************************************)
(* Workflow execution engine of AGENT-E (src/agent/workflow.py):           *)
(* dependency validation, topological ordering and the step runner.        *)
(*                                                                         *)
(* Python values are modelled as follows.                                  *)
(*   - Optional[T]: a sequence of length at most one (<<>> is None).       *)
(*   - dict: a function whose DOMAIN is the key set; the insertion-ordered *)
(*     steps mapping is a sequence of steps with pairwise distinct names.  *)
(*   - a step result or context value: a record Val (see below).           *)
(*   - a formatted message: a record [prefix, kind, name, names, text].    *)
(***************************************************************************)
EXTENDS Integers, Sequences, FiniteSets, TLC

\* ------------------------------------------------------------------ bounds

\* Largest number of steps of a workflow.
MaxSteps == 3
\* Largest total number of depends_on entries of a workflow.
MaxEdges == 2
\* Number of Workflow.run invocations on the instance.
MaxRuns == 2
\* Number of Agent.execute_workflow calls.
MaxExecCalls == 2
\* Number of AgentMemory.add_short_term calls.
MaxAdds == 155

\* Step names, in the order the steps are inserted into the steps mapping.
NamePool == <<"A", "B", "C", "D", "E">>
\* A name that is never the name of a step.
Ghost == "ghost"
\* A context key that is never the name of a step.
QueryKey == "query"

Runs == 1..MaxRuns

\* All sequences over S of length at most n.
RECURSIVE SeqsUpTo(_, _)
SeqsUpTo(S, n) ==
    IF n = 0 THEN {<<>>}
    ELSE LET shorter == SeqsUpTo(S, n - 1)
         IN shorter \cup {Append(w, x) : w \in {v \in shorter : Len(v) = n - 1}, x \in S}

Range(s) == {s[k] : k \in 1..Len(s)}

\* ------------------------------------------------------------------- state

VARIABLES
    steps,            \* self.steps: the insertion-ordered steps mapping
    status,           \* self.status
    self_results,     \* self.results
    pc,               \* per run invocation: idle, started, await, returned
                      \* (raised: an exception left run; no action produces it)
    context,          \* run's local context
    results,          \* run's local results
    execution_order,  \* run's local execution_order
    i,                \* run's loop counter (1-based)
    calls,            \* per run: the execute_step invocations, in order
    ret,              \* per run: the WorkflowResult returned
    order_call,       \* per _get_execution_order call: its locals and outcome
    validate_call,    \* the validate call made on its own: its outcome
    agents,           \* AgentManager.agents: name -> the Agent's status,
                      \* _current_workflow and tools
    exec_call,        \* per Agent.execute_workflow call: its position, agent
                      \* and result
    stop_call,        \* the latest AgentManager.stop_agent call and its result
    short_term,       \* AgentMemory.short_term
    added,            \* number of AgentMemory.add_short_term calls made
    tool_registry,    \* ToolRegistry: _instance, _initialized, _tools
    registry_call     \* the latest call on the registry and its outcome

vars == <<steps, status, self_results, pc, context, results, execution_order,
          i, calls, ret, order_call, validate_call, agents, exec_call,
          stop_call, short_term, added, tool_registry, registry_call>>

\* The state of the workflow and of the calls made on it.
wf_vars == <<steps, status, self_results, pc, context, results, execution_order,
             i, calls, ret, order_call, validate_call>>

\* The state of the agents, their memory and the tool registry.
agent_vars == <<agents, exec_call, stop_call, short_term, added, tool_registry,
                registry_call>>

\* Two direct calls of _get_execution_order on the step mapping.
Calls == {"first", "second"}

\* A call of _get_execution_order that has not begun.
NotCalled ==
    [pc |-> "idle", graph |-> <<>>, in_degree |-> <<>>, queue |-> <<>>,
     execution_order |-> <<>>, error |-> <<>>]

\* The execute_workflow calls.
ExecCalls == 1..MaxExecCalls

\* Before execute_workflow is called.  stopped records that stop_agent
\* returned True for the call's running agent while the call was in progress.
NotExecuting == [pc |-> "idle", agent |-> "", result |-> <<>>, stopped |-> FALSE]

\* ToolRegistry before its first construction: _instance = None,
\* _initialized = False, no _tools.
NoRegistry == [instance |-> FALSE, initialized |-> FALSE, tools |-> <<>>]

\* ToolRegistry.__new__: the one instance is created on the first call and
\* returned by every call.
ToolRegistryNew(reg) == [reg EXCEPT !.instance = TRUE]

\* ToolRegistry.__init__ without the _initialized test: every construction
\* starts an empty tool map.
ToolRegistryInit_AlwaysResets(reg) ==
    [reg EXCEPT !.tools = <<>>, !.initialized = TRUE]

\* ToolRegistry.__init__: the tool map is created on the first construction only.
ToolRegistryInit(reg) ==
    IF ~reg.initialized
    THEN [reg EXCEPT !.tools = <<>>, !.initialized = TRUE]
    ELSE reg

\* ToolRegistry(): __new__, then __init__ on the instance it returned.
Construct(reg) == ToolRegistryInit(ToolRegistryNew(reg))

\* Before validate is called on its own: nothing returned, nothing raised.
NotValidated == [pc |-> "idle", error |-> <<>>]

\* ------------------------------------------------------------ step mapping

\* WorkflowStep: only name and depends_on are read by the engine.
WorkflowStep(name, depends_on) == [name |-> name, depends_on |-> depends_on]

\* Keys of the steps mapping and lookup self.steps[step_name].
StepNames(S) == {S[k].name : k \in 1..Len(S)}
StepOf(S, step_name) == S[CHOOSE k \in 1..Len(S) : S[k].name = step_name]

\* A formatted message: the template (kind), the name, the collection of names
\* and the free text it interpolates, and the prefix run's outer handler adds.
Msg(kind, name, names, text) ==
    [prefix |-> "", kind |-> kind, name |-> name, names |-> names, text |-> text]

\* ---------------------------------------------------------------- validate

\* visit(step_name) of validate, with the closure's visited and path sets
\* threaded through.  ret is "true", "false" or "raise" (unknown dependency,
\* named in dep).
RECURSIVE visit(_, _, _), visitDeps(_, _, _, _)

\* visit without the test of the current path: a cycle is taken for a step
\* already dealt with.
visit_NoPathTest(S, step_name, st) ==
    IF step_name \in st.path \/ step_name \in st.visited
    THEN [st EXCEPT !.ret = "true"]
    ELSE LET r == visitDeps(S, step_name, 1,
                            [st EXCEPT !.path = @ \cup {step_name}])
         IN IF r.ret = "true"
            THEN [r EXCEPT !.path = @ \ {step_name},
                           !.visited = @ \cup {step_name}]
            ELSE r

\* The loop over depends_on skipping, instead of rejecting, unknown names.
visitDeps_SkipUnknown(S, step_name, k, st) ==
    LET deps == StepOf(S, step_name).depends_on
    IN IF k > Len(deps) THEN [st EXCEPT !.ret = "true"]
       ELSE IF deps[k] \notin StepNames(S)
            THEN visitDeps(S, step_name, k + 1, st)
            ELSE LET r == visit(S, deps[k], st)
                 IN IF r.ret = "true" THEN visitDeps(S, step_name, k + 1, r)
                    ELSE r

visit(S, step_name, st) ==
    IF step_name \in st.path THEN [st EXCEPT !.ret = "false"]
    ELSE IF step_name \in st.visited THEN [st EXCEPT !.ret = "true"]
    ELSE LET r == visitDeps(S, step_name, 1,
                            [st EXCEPT !.path = @ \cup {step_name}])
         IN IF r.ret = "true"
            THEN [r EXCEPT !.path = @ \ {step_name},
                           !.visited = @ \cup {step_name}]
            ELSE r

\* The loop over step.depends_on inside visit, from its k-th entry on.
visitDeps(S, step_name, k, st) ==
    LET deps == StepOf(S, step_name).depends_on
    IN IF k > Len(deps) THEN [st EXCEPT !.ret = "true"]
       ELSE IF deps[k] \notin StepNames(S)
            THEN [st EXCEPT !.ret = "raise", !.dep = deps[k]]
            ELSE LET r == visit(S, deps[k], st)
                 IN IF r.ret = "true" THEN visitDeps(S, step_name, k + 1, r)
                    ELSE r

\* The loop of validate over self.steps, from the k-th step on.
RECURSIVE validateFrom(_, _, _)
validateFrom(S, k, st) ==
    IF k > Len(S) THEN [ok |-> TRUE, error |-> <<>>]
    ELSE LET r == visit(S, S[k].name, st)
         IN CASE r.ret = "true" -> validateFrom(S, k + 1, r)
              [] r.ret = "false" ->
                    [ok |-> FALSE,
                     error |-> <<Msg("circular_at", S[k].name, {}, "")>>]
              [] OTHER ->
                    [ok |-> FALSE,
                     error |-> <<Msg("dependency_not_found", r.dep, {}, "")>>]

\* Workflow.validate: ok (returns True) or the ValueError it raises.
validate(S) ==
    validateFrom(S, 1, [ret |-> "true", dep |-> "", visited |-> {}, path |-> {}])

\* ------------------------------------------------------ _get_execution_order

\* The (dep, step_name) pairs in the order the nested loops over
\* self.steps.items() and step.depends_on meet them.
RECURSIVE DependencyPairs(_, _)
DependencyPairs(S, k) ==
    IF k > Len(S) THEN <<>>
    ELSE [j \in 1..Len(S[k].depends_on) |-> <<S[k].depends_on[j], S[k].name>>]
         \o DependencyPairs(S, k + 1)

\* graph built without counting in_degree: every counter stays 0.
RECURSIVE BuildGraph_DegreeNotCounted(_, _, _)
BuildGraph_DegreeNotCounted(S, pairs, j) ==
    IF j = 0
    THEN [in_degree |-> [n \in StepNames(S) |-> 0],
          graph |-> [n \in StepNames(S) |-> <<>>]]
    ELSE LET g == BuildGraph_DegreeNotCounted(S, pairs, j - 1)
             dep == pairs[j][1]
         IN [in_degree |-> g.in_degree,
             graph |-> [g.graph EXCEPT ![dep] = Append(@, pairs[j][2])]]

\* in_degree and graph after the first j pairs have been processed.
RECURSIVE BuildGraph(_, _, _)
BuildGraph(S, pairs, j) ==
    IF j = 0
    THEN [in_degree |-> [n \in StepNames(S) |-> 0],
          graph |-> [n \in StepNames(S) |-> <<>>]]
    ELSE LET g == BuildGraph(S, pairs, j - 1)
             dep == pairs[j][1]
             step_name == pairs[j][2]
         IN [in_degree |-> [g.in_degree EXCEPT ![step_name] = @ + 1],
             graph |-> [g.graph EXCEPT ![dep] = Append(@, step_name)]]

\* queue = [step_name for step_name, degree in in_degree.items() if degree == 0]
RECURSIVE ZeroDegree(_, _, _)
ZeroDegree(S, in_degree, k) ==
    IF k > Len(S) THEN <<>>
    ELSE (IF in_degree[S[k].name] = 0 THEN <<S[k].name>> ELSE <<>>)
         \o ZeroDegree(S, in_degree, k + 1)

\* queue.pop(): the last position instead of the first.
QueuePop_Last(queue) == Len(queue)

\* Position of the queue that queue.pop(0) removes.
QueuePop(queue) == 1

RemoveAt(s, k) == [j \in 1..(Len(s) - 1) |-> IF j < k THEN s[j] ELSE s[j + 1]]

\* The loop over graph[step_name] without the test in_degree == 0: a neighbour
\* is enqueued every time one of its dependencies is dequeued.
RECURSIVE Relax_Eager(_, _, _)
Relax_Eager(neighbors, j, ks) ==
    IF j > Len(neighbors) THEN ks
    ELSE LET neighbor == neighbors[j]
             d == ks.in_degree[neighbor] - 1
         IN Relax_Eager(neighbors, j + 1,
                        [ks EXCEPT !.in_degree[neighbor] = d,
                                   !.queue = Append(@, neighbor)])

\* The loop over graph[step_name]: in_degree and queue after the neighbours
\* from position j on have been processed.
RECURSIVE Relax(_, _, _)
Relax(neighbors, j, ks) ==
    IF j > Len(neighbors) THEN ks
    ELSE LET neighbor == neighbors[j]
             d == ks.in_degree[neighbor] - 1
         IN Relax(neighbors, j + 1,
                  [ks EXCEPT !.in_degree[neighbor] = d,
                             !.queue = IF d = 0 THEN Append(@, neighbor) ELSE @])

\* One iteration of the while loop.
KahnIteration(graph, ks) ==
    LET p == QueuePop(ks.queue)
        step_name == ks.queue[p]
    IN Relax(graph[step_name], 1,
             [ks EXCEPT !.queue = RemoveAt(@, p),
                        !.execution_order = Append(@, step_name)])

RECURSIVE KahnLoop(_, _)
KahnLoop(graph, ks) ==
    IF ks.queue = <<>> THEN ks ELSE KahnLoop(graph, KahnIteration(graph, ks))

\* The loop starting from an in_degree kept between calls: once a call has
\* returned, the counters it left (all zero) are used again.
KahnStart_KeptInDegree(S, g) ==
    LET done == {c \in Calls : order_call[c].pc = "returned"}
        kept == IF done = {} THEN g.in_degree
                ELSE order_call[CHOOSE c \in done : TRUE].in_degree
    IN [in_degree |-> kept,
        queue |-> ZeroDegree(S, kept, 1),
        execution_order |-> <<>>]

\* The state the while loop starts from.
KahnStart(S, g) ==
    [in_degree |-> g.in_degree,
     queue |-> ZeroDegree(S, g.in_degree, 1),
     execution_order |-> <<>>]

\* The check after the loop reporting every step as remaining.
CycleCheck_AllSteps(S, order) ==
    IF Len(order) # Len(S)
    THEN [ok |-> FALSE, order |-> <<>>,
          error |-> <<Msg("circular_remaining", "", StepNames(S), "")>>]
    ELSE [ok |-> TRUE, order |-> order, error |-> <<>>]

\* The check after the loop: the returned order or the ValueError raised.
CycleCheck(S, order) ==
    IF Len(order) # Len(S)
    THEN [ok |-> FALSE, order |-> <<>>,
          error |-> <<Msg("circular_remaining", "",
                          StepNames(S) \ Range(order), "")>>]
    ELSE [ok |-> TRUE, order |-> order, error |-> <<>>]

\* Names in some depends_on that are not keys of the steps mapping, in the
\* order graph[dep] meets them.
UnknownPairs(S) ==
    SelectSeq(DependencyPairs(S, 1), LAMBDA pr : pr[1] \notin StepNames(S))

\* Workflow._get_execution_order: the order it returns or the error it raises
\* (the KeyError of graph[dep] for an unknown name, the ValueError of a cycle).
GetExecutionOrder(S) ==
    IF UnknownPairs(S) # <<>>
    THEN [ok |-> FALSE, order |-> <<>>,
          error |-> <<Msg("key_error", UnknownPairs(S)[1][1], {}, "")>>]
    ELSE LET pairs == DependencyPairs(S, 1)
             g == BuildGraph(S, pairs, Len(pairs))
             ks == KahnLoop(g.graph, KahnStart(S, g))
         IN CycleCheck(S, ks.execution_order)

\* ------------------------------------------------------------------ values

\* A step result or context value.  mapping: whether it has .get; status and
\* error: the values under those keys when present; output: the payload.
Val(mapping, st, error, output) ==
    [mapping |-> mapping, status |-> st, error |-> error, output |-> output]

\* {"status": "success", "output": ...}: the payload names the step and the
\* run that produced it.
SuccessResult(step_name, r) == Val(TRUE, <<"success">>, <<>>, <<step_name, r>>)
\* {"status": "error", "error": "boom"}
ReportedFailure == Val(TRUE, <<"error">>, <<"boom">>, <<>>)
\* {}
EmptyMapping == Val(TRUE, <<>>, <<>>, <<>>)
\* None
NotAMapping == Val(FALSE, <<>>, <<>>, <<>>)
\* A value the caller put into initial_context.
CtxValue == Val(FALSE, <<>>, <<>>, <<"ctx">>)

\* What awaiting execute_step can yield: a returned value or a raised Exception
\* (an instance of the class both handlers of run catch).
Returned(value) == [raised |-> FALSE, value |-> value, exc |-> ""]
Raised(exc) == [raised |-> TRUE, value |-> NotAMapping, exc |-> exc]

Outcomes(step_name, r) ==
    {Returned(SuccessResult(step_name, r)), Returned(ReportedFailure),
     Returned(EmptyMapping), Returned(NotAMapping), Raised("boom")}

\* The initial_context arguments tried: None, {}, a key that is no step name,
\* and a key that is also the name of the first step.
InitialContexts ==
    {<<>>, << <<>> >>, << [key \in {QueryKey} |-> CtxValue] >>,
     << [key \in {NamePool[1]} |-> CtxValue] >>}

\* initial_context or {}
ContextOrEmpty(initial_context) ==
    IF initial_context = <<>> \/ DOMAIN initial_context[1] = {}
    THEN <<>> ELSE initial_context[1]

\* WorkflowResult (execution_time is wall-clock time and is left out).
WorkflowResult(st, output, error, steps_completed, total_steps) ==
    [status |-> st, output |-> output, error |-> error,
     steps_completed |-> steps_completed, total_steps |-> total_steps]

\* f"Workflow failed: {str(e)}"
WorkflowFailed(e) == [e EXCEPT !.prefix = "Workflow failed: "]

\* -------------------------------------------------------------------- init

\* The step lists of n steps whose depends_on lists hold at most budget
\* entries in total, each entry a step name or Ghost.
RECURSIVE DependsOnLists(_, _, _)
DependsOnLists(n, k, budget) ==
    IF k = 0 THEN {<<>>}
    ELSE UNION {{Append(w, d) : w \in DependsOnLists(n, k - 1, budget - Len(d))} :
                d \in SeqsUpTo({NamePool[j] : j \in 1..n} \cup {Ghost}, budget)}

Workflows ==
    UNION {{[k \in 1..n |-> WorkflowStep(NamePool[k], ds[k])] :
            ds \in DependsOnLists(n, n, MaxEdges)} : n \in 0..MaxSteps}

\* Workflow.__init__
Init ==
    /\ steps \in Workflows
    /\ status = "pending"
    /\ self_results = <<>>
    /\ pc = [r \in Runs |-> "idle"]
    /\ context = [r \in Runs |-> <<>>]
    /\ results = [r \in Runs |-> <<>>]
    /\ execution_order = [r \in Runs |-> <<>>]
    /\ i = [r \in Runs |-> 0]
    /\ calls = [r \in Runs |-> <<>>]
    /\ ret = [r \in Runs |-> <<>>]
    /\ order_call = [c \in Calls |-> NotCalled]
    /\ validate_call = NotValidated
    /\ agents = <<>>
    /\ exec_call = [c \in ExecCalls |-> NotExecuting]
    /\ stop_call = <<>>
    /\ short_term = <<>>
    /\ added = 0
    /\ tool_registry = Construct(NoRegistry)
    /\ registry_call = <<>>

\* --------------------------------------------------------------------- run

\* No other run invocation is between two of its statements: the event loop
\* switches coroutines only at the await of execute_step.
NoneMidway(r) == \A q \in Runs \ {r} : pc[q] # "started"

\* One caller at a time: no other invocation of run is in progress.
Sequential(r) == \A q \in Runs \ {r} : pc[q] \in {"idle", "returned"}

\* run returns res after the execute_step invocations cl: its locals are gone.
Return(r, res, cl) ==
    /\ pc' = [pc EXCEPT ![r] = "returned"]
    /\ ret' = [ret EXCEPT ![r] = <<res>>]
    /\ calls' = [calls EXCEPT ![r] = cl]
    /\ context' = [context EXCEPT ![r] = <<>>]
    /\ results' = [results EXCEPT ![r] = <<>>]
    /\ execution_order' = [execution_order EXCEPT ![r] = <<>>]
    /\ i' = [i EXCEPT ![r] = 0]

\* The outer handler re-raising instead of returning: run ends with the
\* exception propagating to its caller.
OuterHandler_Reraise(r, e, cl) ==
    /\ status' = "failed"
    /\ pc' = [pc EXCEPT ![r] = "raised"]
    /\ calls' = [calls EXCEPT ![r] = cl]
    /\ context' = [context EXCEPT ![r] = <<>>]
    /\ results' = [results EXCEPT ![r] = <<>>]
    /\ execution_order' = [execution_order EXCEPT ![r] = <<>>]
    /\ i' = [i EXCEPT ![r] = 0]
    /\ UNCHANGED ret

\* The outer handler reporting total_steps=0.
OuterHandler_TotalZero(r, e, cl) ==
    /\ status' = "failed"
    /\ Return(r, WorkflowResult("failed", <<>>, <<WorkflowFailed(e)>>, 0, 0), cl)

\* The outer handler reporting every step as completed.
OuterHandler_CountsAll(r, e, cl) ==
    /\ status' = "failed"
    /\ Return(r, WorkflowResult("failed", <<>>, <<WorkflowFailed(e)>>,
                                Len(steps), Len(steps)), cl)

\* The outer handler putting the workflow back to PENDING.
OuterHandler_ResetsPending(r, e, cl) ==
    /\ status' = "pending"
    /\ Return(r, WorkflowResult("failed", <<>>, <<WorkflowFailed(e)>>,
                                0, Len(steps)), cl)

\* The outer handler (except Exception as e) of run.
OuterHandler(r, e, cl) ==
    /\ status' = "failed"
    /\ Return(r, WorkflowResult("failed", <<>>, <<WorkflowFailed(e)>>,
                                0, Len(steps)), cl)

\* The inner handler counting the failing step as completed.
InnerHandler_OffByOne(r, order, k, text, cl) ==
    /\ status' = "failed"
    /\ Return(r, WorkflowResult("failed", <<>>,
                  <<Msg("error_executing_step", order[k], {}, text)>>,
                  k, Len(order)), cl)

\* The inner handler without self.status = FAILED.
InnerHandler_LeavesRunning(r, order, k, text, cl) ==
    /\ UNCHANGED status
    /\ Return(r, WorkflowResult("failed", <<>>,
                  <<Msg("error_executing_step", order[k], {}, text)>>,
                  k - 1, Len(order)), cl)

\* The inner handler returning the partial results as output.
InnerHandler_WithOutput(r, order, k, text, cl) ==
    /\ status' = "failed"
    /\ Return(r, WorkflowResult("failed", <<results[r]>>,
                  <<Msg("error_executing_step", order[k], {}, text)>>,
                  k - 1, Len(order)), cl)

\* The inner handler (except Exception as e) around execute_step, at
\* position k of order.
InnerHandler(r, order, k, text, cl) ==
    /\ status' = "failed"
    /\ Return(r, WorkflowResult("failed", <<>>,
                  <<Msg("error_executing_step", order[k], {}, text)>>,
                  k - 1, Len(order)), cl)

\* deps_satisfied = all(dep in results for dep in step.depends_on)
DepsSatisfied(step, res) == \A dep \in Range(step.depends_on) : dep \in DOMAIN res

\* The step context with the overlay reversed: an initial-context entry wins
\* over the dependency result of the same name.
StepContext_ContextWins(step, ctx, res) ==
    [key \in DOMAIN ctx \cup Range(step.depends_on) |->
        IF key \in DOMAIN ctx THEN ctx[key] ELSE res[key]]

\* step_context = context.copy(); step_context[dep] = results[dep] for each dep
StepContext(step, ctx, res) ==
    [key \in DOMAIN ctx \cup Range(step.depends_on) |->
        IF key \in Range(step.depends_on) THEN res[key] ELSE ctx[key]]

\* The loop without context.copy(): the dependency results are written into
\* the context mapping itself, which is the caller's initial_context.
EnterLoop_NoCopy(r, order, k, res, cl) ==
    IF k > Len(order)
    THEN /\ status' = "completed"
         /\ Return(r, WorkflowResult("completed", <<res>>, <<>>,
                                     Len(order), Len(order)), cl)
    ELSE LET step == StepOf(steps, order[k])
         IN IF ~DepsSatisfied(step, res)
            THEN OuterHandler(r, Msg("dependencies_not_satisfied", order[k],
                     {dep \in Range(step.depends_on) : dep \notin DOMAIN res}, ""),
                     cl)
            ELSE /\ calls' = [calls EXCEPT ![r] = Append(cl,
                         [step |-> order[k],
                          context |-> StepContext(step, context[r], res),
                          outcome |-> <<>>])]
                 /\ context' = [context EXCEPT ![r] =
                                   StepContext(step, context[r], res)]
                 /\ pc' = [pc EXCEPT ![r] = "await"]
                 /\ i' = [i EXCEPT ![r] = k]
                 /\ results' = [results EXCEPT ![r] = res]
                 /\ execution_order' = [execution_order EXCEPT ![r] = order]
                 /\ UNCHANGED <<status, ret>>

\* The for loop of run from position k of order, with local results res and
\* the execute_step invocations cl made so far: up to the await of
\* execute_step, the return after the loop, or the raise of the dependency
\* re-check.
EnterLoop(r, order, k, res, cl) ==
    IF k > Len(order)
    THEN /\ status' = "completed"
         /\ Return(r, WorkflowResult("completed", <<res>>, <<>>,
                                     Len(order), Len(order)), cl)
    ELSE LET step == StepOf(steps, order[k])
         IN IF ~DepsSatisfied(step, res)
            THEN OuterHandler(r, Msg("dependencies_not_satisfied", order[k],
                     {dep \in Range(step.depends_on) : dep \notin DOMAIN res}, ""),
                     cl)
            ELSE /\ calls' = [calls EXCEPT ![r] = Append(cl,
                         [step |-> order[k],
                          context |-> StepContext(step, context[r], res),
                          outcome |-> <<>>])]
                 /\ pc' = [pc EXCEPT ![r] = "await"]
                 /\ i' = [i EXCEPT ![r] = k]
                 /\ results' = [results EXCEPT ![r] = res]
                 /\ execution_order' = [execution_order EXCEPT ![r] = order]
                 /\ UNCHANGED <<status, context, ret>>

\* run's entry without self.status = RUNNING.
RunBegin_KeepsStatus(r, initial_context) ==
    /\ pc[r] = "idle"
    /\ \A q \in Runs : q < r => pc[q] # "idle"
    /\ NoneMidway(r)
    /\ pc' = [pc EXCEPT ![r] = "started"]
    /\ context' = [context EXCEPT ![r] = ContextOrEmpty(initial_context)]
    /\ results' = [results EXCEPT ![r] = <<>>]
    /\ ret' = [q \in Runs |-> IF pc[q] = "returned" THEN <<>> ELSE ret[q]]
    /\ calls' = [q \in Runs |-> IF pc[q] = "returned" THEN <<>> ELSE calls[q]]
    /\ UNCHANGED <<steps, status, self_results, execution_order, i, order_call,
                   validate_call, agent_vars>>

\* run's entry with results taken from the instance instead of a fresh dict:
\* the step results of the last completed run are still in it.
RunBegin_StaleResults(r, initial_context) ==
    /\ pc[r] = "idle"
    /\ \A q \in Runs : q < r => pc[q] # "idle"
    /\ NoneMidway(r)
    /\ status' = "running"
    /\ pc' = [pc EXCEPT ![r] = "started"]
    /\ context' = [context EXCEPT ![r] = ContextOrEmpty(initial_context)]
    /\ results' = [results EXCEPT ![r] =
          IF \E q \in Runs : ret[q] # <<>> /\ ret[q][1].output # <<>>
          THEN LET q == CHOOSE p \in Runs : ret[p] # <<>> /\ ret[p][1].output # <<>>
               IN ret[q][1].output[1]
          ELSE <<>>]
    /\ ret' = [q \in Runs |-> IF pc[q] = "returned" THEN <<>> ELSE ret[q]]
    /\ calls' = [q \in Runs |-> IF pc[q] = "returned" THEN <<>> ELSE calls[q]]
    /\ UNCHANGED <<steps, self_results, execution_order, i, order_call,
                   validate_call, agent_vars>>

\* run is called: self.status = RUNNING, context = initial_context or {},
\* results = {}.  A caller that calls run again has consumed the results
\* returned to it before.
RunBegin(r, initial_context) ==
    /\ pc[r] = "idle"
    /\ \A q \in Runs : q < r => pc[q] # "idle"
    /\ NoneMidway(r)
    /\ status' = "running"
    /\ pc' = [pc EXCEPT ![r] = "started"]
    /\ context' = [context EXCEPT ![r] = ContextOrEmpty(initial_context)]
    /\ results' = [results EXCEPT ![r] = <<>>]
    /\ ret' = [q \in Runs |-> IF pc[q] = "returned" THEN <<>> ELSE ret[q]]
    /\ calls' = [q \in Runs |-> IF pc[q] = "returned" THEN <<>> ELSE calls[q]]
    /\ UNCHANGED <<steps, self_results, execution_order, i, order_call,
                   validate_call, agent_vars>>

\* The try block up to the first await: validate, _get_execution_order and the
\* first pass of the loop.
RunEnter(r) ==
    /\ pc[r] = "started"
    /\ LET v == validate(steps)
           o == GetExecutionOrder(steps)
       IN IF ~v.ok THEN OuterHandler(r, v.error[1], calls[r])
          ELSE IF ~o.ok THEN OuterHandler(r, o.error[1], calls[r])
          ELSE EnterLoop(r, o.order, 1, results[r], calls[r])
    /\ UNCHANGED <<steps, self_results, order_call, validate_call, agent_vars>>

\* The step the run is awaiting.
CurrentStep(r) == execution_order[r][i[r]]

\* The success test left out: every mapping counts as a success.
NotSuccess_Ignored(step_result) == FALSE

\* step_result.get("status") != "success"
NotSuccess(step_result) == step_result.status # <<"success">>

\* The failure message without the result's own error text.
ErrorText_Unknown(step_result) == "Unknown error"

\* step_result.get('error', 'Unknown error')
ErrorText(step_result) ==
    IF step_result.error = <<>> THEN "Unknown error" ELSE step_result.error[1]

\* results kept on the instance and shared by all invocations: an entry
\* another run in progress has recorded replaces the run's own.
Record_Shared(res, step_name, step_result) ==
    LET Foreign(q, key) ==
            /\ key \in DOMAIN results[q]
            /\ (key \notin DOMAIN res \/ results[q][key] # res[key])
        others == UNION {DOMAIN results[q] : q \in Runs}
    IN [key \in DOMAIN res \cup others \cup {step_name} |->
           IF key = step_name THEN step_result
           ELSE IF \E q \in Runs : Foreign(q, key)
                THEN results[CHOOSE q \in Runs : Foreign(q, key)][key]
           ELSE res[key]]

\* results = {step_name: step_result}: the earlier results are lost.
Record_Overwrite(res, step_name, step_result) ==
    [key \in {step_name} |-> step_result]

\* results[step_name] = step_result
Record(res, step_name, step_result) ==
    [key \in DOMAIN res \cup {step_name} |->
        IF key = step_name THEN step_result ELSE res[key]]

\* The await of execute_step ends with outcome o: the rest of the loop body,
\* then the loop from the next position on.
StepReturn(r, o) ==
    /\ pc[r] = "await"
    /\ NoneMidway(r)
    /\ LET order == execution_order[r]
           k == i[r]
           cl == [calls[r] EXCEPT ![Len(calls[r])].outcome = <<o>>]
       IN IF o.raised THEN InnerHandler(r, order, k, o.exc, cl)
          ELSE IF ~o.value.mapping
               THEN InnerHandler(r, order, k, "object has no attribute 'get'", cl)
          ELSE IF NotSuccess(o.value)
               THEN /\ status' = "failed"
                    /\ Return(r, WorkflowResult("failed", <<>>,
                           <<Msg("step_failed", order[k], {}, ErrorText(o.value))>>,
                           k - 1, Len(order)), cl)
          ELSE EnterLoop(r, order, k + 1, Record(results[r], order[k], o.value), cl)
    /\ UNCHANGED <<steps, self_results, order_call, validate_call, agent_vars>>

\* ------------------------------------- _get_execution_order, step by step

\* No other call of _get_execution_order is in progress (the function is
\* synchronous).
NoCallInProgress(c) ==
    \A d \in Calls \ {c} : order_call[d].pc \in {"idle", "returned", "raised"}

\* _get_execution_order is called: in_degree, graph, queue, execution_order.
OrderBegin(c) ==
    /\ order_call[c].pc = "idle"
    /\ NoCallInProgress(c)
    /\ order_call' = [order_call EXCEPT ![c] =
          IF UnknownPairs(steps) # <<>>
          THEN [NotCalled EXCEPT
                   !.pc = "raised",
                   !.error = <<Msg("key_error", UnknownPairs(steps)[1][1], {}, "")>>]
          ELSE LET pairs == DependencyPairs(steps, 1)
                   g == BuildGraph(steps, pairs, Len(pairs))
                   ks == KahnStart(steps, g)
               IN [pc |-> "loop", graph |-> g.graph, in_degree |-> ks.in_degree,
                   queue |-> ks.queue, execution_order |-> ks.execution_order,
                   error |-> <<>>]]
    /\ UNCHANGED <<steps, status, self_results, pc, context, results,
                   execution_order, i, calls, ret, validate_call, agent_vars>>

\* One iteration of while queue.
OrderIterate(c) ==
    /\ order_call[c].pc = "loop"
    /\ order_call[c].queue # <<>>
    /\ LET ks == KahnIteration(order_call[c].graph,
                               [in_degree |-> order_call[c].in_degree,
                                queue |-> order_call[c].queue,
                                execution_order |-> order_call[c].execution_order])
       IN order_call' = [order_call EXCEPT ![c].in_degree = ks.in_degree,
                                            ![c].queue = ks.queue,
                                            ![c].execution_order = ks.execution_order]
    /\ UNCHANGED <<steps, status, self_results, pc, context, results,
                   execution_order, i, calls, ret, validate_call, agent_vars>>

\* The queue is empty: the cycle check, then return or raise.
OrderFinish(c) ==
    /\ order_call[c].pc = "loop"
    /\ order_call[c].queue = <<>>
    /\ LET res == CycleCheck(steps, order_call[c].execution_order)
       IN order_call' = [order_call EXCEPT
                            ![c].pc = IF res.ok THEN "returned" ELSE "raised",
                            ![c].error = res.error]
    /\ UNCHANGED <<steps, status, self_results, pc, context, results,
                   execution_order, i, calls, ret, validate_call, agent_vars>>

\* validate called on its own, setting self.status = FAILED when it raises.
ValidateCall_MarksFailed ==
    /\ validate_call.pc = "idle"
    /\ \A c \in Calls : order_call[c].pc # "loop"
    /\ LET v == validate(steps)
       IN /\ validate_call' = [pc |-> IF v.ok THEN "returned" ELSE "raised",
                                error |-> v.error]
          /\ status' = IF v.ok THEN status ELSE "failed"
    /\ UNCHANGED <<steps, self_results, pc, context, results,
                   execution_order, i, calls, ret, order_call, agent_vars>>

\* validate is called on its own (not from run) and returns True or raises
\* ValueError: it works on its local sets visited and path only.
ValidateCall ==
    /\ validate_call.pc = "idle"
    /\ \A c \in Calls : order_call[c].pc # "loop"
    /\ LET v == validate(steps)
       IN validate_call' = [pc |-> IF v.ok THEN "returned" ELSE "raised",
                            error |-> v.error]
    /\ UNCHANGED <<steps, status, self_results, pc, context, results,
                   execution_order, i, calls, ret, order_call, agent_vars>>

\* Two calls of _get_execution_order, one after the other, and a call of
\* validate before, between or after them.
NextOrder ==
    \/ \E c \in Calls : OrderBegin(c)
    \/ \E c \in Calls : OrderIterate(c)
    \/ \E c \in Calls : OrderFinish(c)
    \/ ValidateCall

SpecOrder == Init /\ [][NextOrder]_vars

\* One caller at a time invokes run, up to MaxRuns times.
Next ==
    \/ \E r \in Runs, ic \in InitialContexts : Sequential(r) /\ RunBegin(r, ic)
    \/ \E r \in Runs : RunEnter(r)
    \/ \E r \in Runs :
          pc[r] = "await" /\ \E o \in Outcomes(CurrentStep(r), r) : StepReturn(r, o)

Spec == Init /\ [][Next]_vars

\* The await of execute_step in run r ends, with any outcome.
AwaitEnds(r) ==
    pc[r] = "await" /\ \E o \in Outcomes(CurrentStep(r), r) : StepReturn(r, o)

\* The synchronous code of run r between the call and the first await: it
\* ends at the await of execute_step or at a return.  On the steps of Next
\* these are the steps of RunEnter(r), which is enabled whenever pc[r] is
\* "started".
RunProceeds(r) ==
    /\ pc[r] = "started"
    /\ pc' \in {[pc EXCEPT ![r] = p] : p \in {"await", "returned"}}

\* Spec with progress: a run that was called executes its synchronous code up
\* to the first await (a coroutine is not suspended before an await), and
\* every awaited execute_step eventually returns or raises.
SpecLive ==
    /\ Init /\ [][Next]_vars
    /\ \A r \in Runs : WF_pc(RunProceeds(r)) /\ WF_vars(AwaitEnds(r))

\* At most one other invocation of run is in progress: two invocations
\* overlap at a time.
TwoAtATime(r) ==
    Cardinality({q \in Runs \ {r} : pc[q] \in {"started", "await"}}) <= 1

\* The initial_context arguments of overlapping runs: None, and a key that is
\* also the name of the first step.
ConcContexts == {<<>>, << [key \in {NamePool[1]} |-> CtxValue] >>}

\* Callers invoke run on the same instance without waiting for one another:
\* a run may begin, and an awaited execute_step may end, while another run
\* is suspended at its await.
NextConc ==
    \/ \E r \in Runs, ic \in ConcContexts : TwoAtATime(r) /\ RunBegin(r, ic)
    \/ \E r \in Runs : RunEnter(r)
    \/ \E r \in Runs : AwaitEnds(r)

\* Overlapping runs are explored on the workflows of fewer than MaxSteps
\* steps.
InitConc == Init /\ Len(steps) < MaxSteps

SpecConc == InitConc /\ [][NextConc]_vars

\* ------------------------------------------------------------------ agents

\* Names given to AgentManager.create_agent.
AgentNames == {"a1", "a2"}

\* A name no agent was created under.
UnknownAgent == "nobody"

\* Agent.__init__: IDLE, no tools, no current workflow.
NewAgent == [status |-> "idle", current_workflow |-> <<>>, tools |-> <<>>]

\* dict[key] = value
Put(map, key, value) ==
    [k \in DOMAIN map \cup {key} |-> IF k = key THEN value ELSE map[k]]

\* del dict[key]
Del(map, key) == [k \in DOMAIN map \ {key} |-> map[k]]

\* AgentManager.create_agent for a name not taken: Agent.__init__ constructs
\* ToolRegistry().  (For a taken name it raises and changes nothing.)
CreateAgent(name) ==
    /\ name \notin DOMAIN agents
    /\ agents' = Put(agents, name, NewAgent)
    /\ tool_registry' = Construct(tool_registry)
    /\ UNCHANGED <<wf_vars, exec_call, stop_call, short_term, added,
                   registry_call>>

\* Agent.execute_workflow up to the await of workflow.run: the agent is RUNNING
\* and holds the workflow.  The calls are numbered in the order they start.
ExecBegin(c, a) ==
    /\ exec_call[c].pc = "idle"
    /\ \A b \in ExecCalls : b < c => exec_call[b].pc # "idle"
    /\ a \in DOMAIN agents
    /\ agents' = [agents EXCEPT ![a].status = "running",
                                ![a].current_workflow = <<c>>]
    /\ exec_call' = [exec_call EXCEPT ![c] = [pc |-> "await", agent |-> a,
                                              result |-> <<>>,
                                              stopped |-> FALSE]]
    /\ UNCHANGED <<wf_vars, stop_call, short_term, added, tool_registry,
                   registry_call>>

\* What the awaited workflow.run does: returns a result that is completed or
\* failed, raises an Exception, or the task is cancelled at the await.
RunOutcomes == {"completed", "failed", "raised", "cancelled"}

\* The agent status execute_workflow writes after the await.
StatusAfter(outcome, before) ==
    CASE outcome = "completed" -> "completed"
      [] outcome = "failed"    -> "error"
      [] outcome = "raised"    -> "error"
      [] OTHER                 -> before

\* execute_workflow without its finally clause.
ExecEnd_NoFinally(c, outcome) ==
    LET a == exec_call[c].agent IN
    /\ exec_call[c].pc = "await"
    /\ agents' = [agents EXCEPT
                     ![a].status = StatusAfter(outcome, agents[a].status)]
    /\ exec_call' = [exec_call EXCEPT
                        ![c].pc = IF outcome \in {"completed", "failed"}
                                  THEN "returned" ELSE "raised",
                        ![c].result = IF outcome \in {"completed", "failed"}
                                      THEN <<outcome>> ELSE <<>>]
    /\ UNCHANGED <<wf_vars, stop_call, short_term, added, tool_registry,
                   registry_call>>

\* execute_workflow from the end of the await to its return or raise: the
\* status follows the result, an Exception makes it ERROR and is re-raised, and
\* the finally clause clears the current workflow.
ExecEnd(c, outcome) ==
    LET a == exec_call[c].agent IN
    /\ exec_call[c].pc = "await"
    /\ agents' = [agents EXCEPT
                     ![a].status = StatusAfter(outcome, agents[a].status),
                     ![a].current_workflow = <<>>]
    /\ exec_call' = [exec_call EXCEPT
                        ![c].pc = IF outcome \in {"completed", "failed"}
                                  THEN "returned" ELSE "raised",
                        ![c].result = IF outcome \in {"completed", "failed"}
                                      THEN <<outcome>> ELSE <<>>]
    /\ UNCHANGED <<wf_vars, stop_call, short_term, added, tool_registry,
                   registry_call>>

\* AgentManager.stop_agent: False for a name without agent; otherwise a RUNNING
\* agent becomes PAUSED, or IDLE when forced, and True is returned.  Nothing
\* else of the agent or of its calls in progress is touched.
StopAgent(name, force) ==
    IF name \notin DOMAIN agents
    THEN /\ stop_call' = <<[name |-> name, force |-> force, value |-> FALSE,
                            was_running |-> FALSE]>>
         /\ UNCHANGED <<wf_vars, agents, exec_call, short_term, added,
                        tool_registry, registry_call>>
    ELSE LET was_running == agents[name].status = "running" IN
         /\ agents' = IF was_running
                      THEN [agents EXCEPT ![name].status =
                               IF force THEN "idle" ELSE "paused"]
                      ELSE agents
         /\ exec_call' = [c \in ExecCalls |->
                IF was_running /\ exec_call[c].pc = "await"
                               /\ exec_call[c].agent = name
                THEN [exec_call[c] EXCEPT !.stopped = TRUE]
                ELSE exec_call[c]]
         /\ stop_call' = <<[name |-> name, force |-> force, value |-> TRUE,
                            was_running |-> was_running]>>
         /\ UNCHANGED <<wf_vars, short_term, added, tool_registry,
                        registry_call>>

NextAgent ==
    \/ \E name \in AgentNames : CreateAgent(name)
    \/ \E c \in ExecCalls, a \in AgentNames : ExecBegin(c, a)
    \/ \E c \in ExecCalls, outcome \in RunOutcomes : ExecEnd(c, outcome)
    \/ \E name \in AgentNames \cup {UnknownAgent}, force \in BOOLEAN :
          StopAgent(name, force)

\* The agents are exercised without a workflow of their own in the state.
InitAgent == Init /\ steps = <<>>

SpecAgent == InitAgent /\ [][NextAgent]_vars

\* ------------------------------------------------------------ agent memory

\* len(self.short_term) > 100
ShortTermLimit == 100

\* self.short_term[-50:]
ShortTermKeep == 50

\* seq[:n], the first n items.
LastItems_First(seq, n) ==
    IF Len(seq) <= n THEN seq ELSE SubSeq(seq, 1, n)

\* seq[-n:], the last n items (all of them when there are fewer).
LastItems(seq, n) ==
    IF Len(seq) <= n THEN seq ELSE SubSeq(seq, Len(seq) - n + 1, Len(seq))

\* AgentMemory.add_short_term: append, then keep the last ShortTermKeep items
\* if there are more than ShortTermLimit.  The item added by the k-th call is k.
AddShortTerm ==
    /\ added < MaxAdds
    /\ LET appended == Append(short_term, added + 1) IN
       short_term' = IF Len(appended) > ShortTermLimit
                     THEN LastItems(appended, ShortTermKeep)
                     ELSE appended
    /\ added' = added + 1
    /\ UNCHANGED <<wf_vars, agents, exec_call, stop_call, tool_registry,
                   registry_call>>

NextMemory == AddShortTerm

SpecMemory == InitAgent /\ [][NextMemory]_vars

\* ------------------------------------------------------------ tool registry

\* Tool objects: two of the same name and one of another.
ToolPool == {[name |-> "n1", id |-> 1], [name |-> "n1", id |-> 2],
             [name |-> "n2", id |-> 3]}

ToolNames == {tool.name : tool \in ToolPool}

\* A call on the registry and how it ended.
RegistryCall(op, agent, name, id, raised, value) ==
    <<[op |-> op, agent |-> agent, name |-> name, id |-> id,
       raised |-> raised, value |-> value]>>

\* ToolRegistry() constructed once more, by any code.
NewRegistry ==
    /\ tool_registry' = Construct(tool_registry)
    /\ registry_call' = RegistryCall("construct", "", "", 0, FALSE, FALSE)
    /\ UNCHANGED <<wf_vars, agents, exec_call, stop_call, short_term, added>>

\* Agent.register_tool: ToolRegistry.register raises ValueError for a name the
\* registry holds, before anything is written; otherwise the tool is stored in
\* the registry and then in the agent's own tools map.
RegisterTool(a, tool) ==
    /\ a \in DOMAIN agents
    /\ IF tool.name \in DOMAIN tool_registry.tools
       THEN /\ registry_call' =
                   RegistryCall("register_tool", a, tool.name, tool.id, TRUE, FALSE)
            /\ UNCHANGED <<agents, tool_registry>>
       ELSE /\ tool_registry' = [tool_registry EXCEPT
                                    !.tools = Put(@, tool.name, tool)]
            /\ agents' = [agents EXCEPT ![a].tools = Put(@, tool.name, tool)]
            /\ registry_call' =
                   RegistryCall("register_tool", a, tool.name, tool.id, FALSE, FALSE)
    /\ UNCHANGED <<wf_vars, exec_call, stop_call, short_term, added>>

\* The module's register_tool helper: ToolRegistry.register on the default
\* registry, with no agent involved.
RegistryRegister(tool) ==
    /\ IF tool.name \in DOMAIN tool_registry.tools
       THEN /\ registry_call' =
                   RegistryCall("register", "", tool.name, tool.id, TRUE, FALSE)
            /\ UNCHANGED tool_registry
       ELSE /\ tool_registry' = [tool_registry EXCEPT
                                    !.tools = Put(@, tool.name, tool)]
            /\ registry_call' =
                   RegistryCall("register", "", tool.name, tool.id, FALSE, FALSE)
    /\ UNCHANGED <<wf_vars, agents, exec_call, stop_call, short_term, added>>

\* ToolRegistry.unregister: deletes the name and returns True, or returns False
\* for a name the registry does not hold.  No agent's tools map is touched.
Unregister(name) ==
    /\ IF name \in DOMAIN tool_registry.tools
       THEN /\ tool_registry' = [tool_registry EXCEPT !.tools = Del(@, name)]
            /\ registry_call' = RegistryCall("unregister", "", name, 0, FALSE, TRUE)
       ELSE /\ registry_call' = RegistryCall("unregister", "", name, 0, FALSE, FALSE)
            /\ UNCHANGED tool_registry
    /\ UNCHANGED <<wf_vars, agents, exec_call, stop_call, short_term, added>>

NextRegistry ==
    \/ \E name \in AgentNames : CreateAgent(name)
    \/ NewRegistry
    \/ \E a \in AgentNames, tool \in ToolPool : RegisterTool(a, tool)
    \/ \E tool \in ToolPool : RegistryRegister(tool)
    \/ \E name \in ToolNames : Unregister(name)

SpecRegistry == InitAgent /\ [][NextRegistry]_vars

\* ------------------------------------------------- reference graph notions

\* The steps a step declares as dependencies.
DepsOf(S, n) == Range(StepOf(S, n).depends_on) \cap StepNames(S)

\* The steps reachable from the set seen along declared dependencies.
RECURSIVE Reachable(_, _)
Reachable(S, seen) ==
    LET more == seen \cup UNION {DepsOf(S, m) : m \in seen}
    IN IF more = seen THEN seen ELSE Reachable(S, more)

\* Step n transitively depends on itself.
OnCycle(S, n) == n \in Reachable(S, DepsOf(S, n))
HasCycle(S) == \E n \in StepNames(S) : OnCycle(S, n)

\* Some depends_on entry names no step.
HasUnknown(S) ==
    \E k \in 1..Len(S) : \E d \in Range(S[k].depends_on) : d \notin StepNames(S)

\* Some depends_on lists a name more than once.
HasDuplicate(S) ==
    \E k \in 1..Len(S) : Cardinality(Range(S[k].depends_on)) < Len(S[k].depends_on)

\* order holds every step name exactly once, each after all its dependencies.
IsTopologicalOrder(S, order) ==
    /\ Len(order) = Len(S)
    /\ Range(order) = StepNames(S)
    /\ \A k \in 1..Len(order) :
         \A d \in Range(StepOf(S, order[k]).depends_on) :
            \E j \in 1..(k - 1) : order[j] = d

\* The run invocation has returned and its caller holds the result.
HasReturned(r) == ret[r] # <<>>

\* The outcome of an execute_step invocation is a success result.
IsSuccess(o) == ~o.raised /\ o.value.mapping /\ o.value.status = <<"success">>

\* ------------------------------------------------------------------ claims

\* C1: for a step set with no dependency cycle and no unknown dependency
\* name (duplicate depends_on entries included), validate returns True and
\* _get_execution_order returns every step name exactly once with every
\* dependency of a step strictly before it; the run iterates that order.
C1_AcyclicAccepted ==
    ~HasCycle(steps) /\ ~HasUnknown(steps) =>
        \A r \in Runs :
            /\ pc[r] = "started" =>
                 /\ validate(steps).ok
                 /\ GetExecutionOrder(steps).ok
                 /\ IsTopologicalOrder(steps, GetExecutionOrder(steps).order)
            /\ pc[r] = "await" => IsTopologicalOrder(steps, execution_order[r])

\* A run of three acyclic steps, one of which lists a dependency twice, whose
\* order differs from the insertion order.
C1_Witness ==
    \E r \in Runs :
        /\ pc[r] = "await"
        /\ Len(steps) = 3 /\ HasDuplicate(steps)
        /\ ~HasCycle(steps) /\ ~HasUnknown(steps)
        /\ execution_order[r][1] # steps[1].name

\* C2: for a step set with a dependency cycle (self-dependency included) and
\* no unknown dependency name, validate and _get_execution_order both fail
\* with a circular-dependency error, and run returns a failed result without
\* invoking execute_step.
C2_CycleRejected ==
    HasCycle(steps) /\ ~HasUnknown(steps) =>
        \A r \in Runs :
            /\ calls[r] = <<>> /\ pc[r] # "await"
            /\ pc[r] = "started" =>
                 /\ ~validate(steps).ok
                 /\ validate(steps).error[1].kind = "circular_at"
                 /\ ~GetExecutionOrder(steps).ok
                 /\ GetExecutionOrder(steps).error[1].kind = "circular_remaining"
            /\ HasReturned(r) => ret[r][1].status = "failed"

\* A run of a workflow with a self-dependent step has returned.
C2_Witness ==
    \E r \in Runs :
        /\ HasReturned(r) /\ ~HasUnknown(steps)
        /\ \E k \in 1..Len(steps) : steps[k].name \in Range(steps[k].depends_on)
        /\ \E k \in 1..Len(steps) : steps[k].depends_on = <<>>

\* C3 as stated: whenever some depends_on names no step, validate fails with
\* the unknown-dependency error and run returns a failed result carrying it,
\* without invoking execute_step.
C3_UnknownAlwaysReported ==
    HasUnknown(steps) =>
        \A r \in Runs :
            /\ calls[r] = <<>> /\ pc[r] # "await"
            /\ HasReturned(r) =>
                 /\ ret[r][1].status = "failed"
                 /\ validate(steps).error # <<>>
                 /\ validate(steps).error[1].kind = "dependency_not_found"
                 /\ ret[r][1].error = <<WorkflowFailed(validate(steps).error[1])>>

\* C3 amended: whenever some depends_on names no step, validate fails, with the
\* unknown-dependency error or, only when the step set also has a dependency
\* cycle, with the circular-dependency error; run returns a failed result
\* carrying that error without invoking execute_step.
C3_UnknownRejected ==
    HasUnknown(steps) =>
        \A r \in Runs :
            /\ calls[r] = <<>> /\ pc[r] # "await"
            /\ pc[r] = "started" =>
                 /\ ~validate(steps).ok
                 /\ \/ validate(steps).error[1].kind = "dependency_not_found"
                    \/ /\ validate(steps).error[1].kind = "circular_at"
                       /\ HasCycle(steps)
            /\ HasReturned(r) =>
                 /\ ret[r][1].status = "failed"
                 /\ ret[r][1].error = <<WorkflowFailed(validate(steps).error[1])>>

\* A run has returned for a workflow whose first step is valid and
\* dependency-free and whose later step names an unknown dependency.
C3_Witness ==
    \E r \in Runs :
        /\ HasReturned(r)
        /\ Len(steps) >= 2 /\ steps[1].depends_on = <<>>
        /\ HasUnknown(steps) /\ ~HasCycle(steps)
        /\ ret[r][1].error[1].kind = "dependency_not_found"

\* The last execute_step invocation of run r.
LastCall(r) == calls[r][Len(calls[r])]

\* C4: halt on first failure.  Steps are invoked in execution order and only
\* after every earlier invocation returned a success result; when the
\* invocation at position i raises or returns a non-success result, status is
\* failed and run returns failed with steps_completed = i-1 and total_steps =
\* the length of the execution order, no later step having been invoked.
C4_HaltOnFirstFailure ==
    \A r \in Runs :
        /\ \A k \in 1..(Len(calls[r]) - 1) :
              calls[r][k].outcome # <<>> /\ IsSuccess(calls[r][k].outcome[1])
        /\ calls[r] # <<>> =>
              /\ Len(calls[r]) <= Len(GetExecutionOrder(steps).order)
              /\ \A k \in 1..Len(calls[r]) :
                    calls[r][k].step = GetExecutionOrder(steps).order[k]
        /\ (HasReturned(r) /\ calls[r] # <<>> /\ ~IsSuccess(LastCall(r).outcome[1])) =>
              /\ status = "failed"
              /\ ret[r][1].status = "failed"
              /\ ret[r][1].steps_completed = Len(calls[r]) - 1
              /\ ret[r][1].total_steps = Len(GetExecutionOrder(steps).order)

\* The chain A <- B <- C where B's action failed: one step completed, C never
\* invoked.
C4_Witness ==
    \E r \in Runs :
        /\ HasReturned(r)
        /\ Len(steps) = 3
        /\ steps[1].depends_on = <<>>
        /\ steps[2].depends_on = <<steps[1].name>>
        /\ steps[3].depends_on = <<steps[2].name>>
        /\ Len(calls[r]) = 2 /\ LastCall(r).step = steps[2].name
        /\ LastCall(r).outcome[1].raised
        /\ ret[r][1].status = "failed" /\ ret[r][1].steps_completed = 1
        /\ ret[r][1].total_steps = 3

\* C5: full success.  When the workflow is valid and every action returned a
\* success result (zero steps included), status is completed and run returns
\* completed, output mapping exactly the step names to the results their
\* actions returned, and steps_completed = total_steps = number of steps.
C5_FullSuccess ==
    \A r \in Runs :
        (/\ HasReturned(r)
         /\ validate(steps).ok
         /\ \A k \in 1..Len(calls[r]) : IsSuccess(calls[r][k].outcome[1])) =>
            /\ status = "completed"
            /\ ret[r][1].status = "completed"
            /\ ret[r][1].error = <<>>
            /\ ret[r][1].steps_completed = Len(steps)
            /\ ret[r][1].total_steps = Len(steps)
            /\ ret[r][1].output # <<>>
            /\ DOMAIN ret[r][1].output[1] = StepNames(steps)
            /\ \A n \in StepNames(steps) :
                  \E k \in 1..Len(calls[r]) :
                     /\ calls[r][k].step = n
                     /\ ret[r][1].output[1][n] = calls[r][k].outcome[1].value

\* Three independent steps have all succeeded.
C5_Witness ==
    \E r \in Runs :
        /\ HasReturned(r)
        /\ Len(steps) = 3
        /\ \A k \in 1..3 : steps[k].depends_on = <<>>
        /\ ret[r][1].status = "completed"
        /\ ret[r][1].steps_completed = 3

\* C6: context propagation.  The context passed to a step's action has
\* exactly the keys of the initial context plus the step's depends_on names;
\* a depends_on name maps to the result that dependency's action returned in
\* this run (also when the initial context has that key), every other key to
\* its initial-context value.
C6_ContextPropagation ==
    \A r \in Runs :
        pc[r] = "await" =>
            \A k \in 1..Len(calls[r]) :
                LET deps == Range(StepOf(steps, calls[r][k].step).depends_on)
                    passed == calls[r][k].context
                IN /\ DOMAIN passed = DOMAIN context[r] \cup deps
                   /\ \A key \in DOMAIN passed \ deps : passed[key] = context[r][key]
                   /\ \A key \in DOMAIN passed \cap deps :
                         \E j \in 1..(k - 1) :
                            /\ calls[r][j].step = key
                            /\ passed[key] = calls[r][j].outcome[1].value

\* A step depending on the first step is invoked while the initial context
\* has a key of the first step's name: the step sees the dependency's result.
C6_Witness ==
    \E r \in Runs :
        /\ pc[r] = "await"
        /\ NamePool[1] \in DOMAIN context[r]
        /\ NamePool[1] \in Range(StepOf(steps, LastCall(r).step).depends_on)
        /\ LastCall(r).context[NamePool[1]] = SuccessResult(NamePool[1], r)
        /\ LastCall(r).context[NamePool[1]] # context[r][NamePool[1]]

\* What run r must report as a failure: validation or ordering failed, or the
\* last action invoked raised or returned a non-success result.
ErrorCondition(r) ==
    \/ ~validate(steps).ok
    \/ ~GetExecutionOrder(steps).ok
    \/ calls[r] # <<>> /\ ~IsSuccess(LastCall(r).outcome[1])

\* C7: run never propagates an exception.  Every run invocation that ends,
\* ends by returning a WorkflowResult; validation errors, ordering errors, an
\* unmet dependency and errors of a step action give a result with status
\* failed and an error message.
C7_NeverPropagates ==
    \A r \in Runs :
        /\ pc[r] \in {"idle", "started", "await", "returned"}
        /\ HasReturned(r) =>
              /\ ret[r][1].status \in {"completed", "failed"}
              /\ ErrorCondition(r) <=> ret[r][1].status = "failed"
              /\ ret[r][1].status = "failed" =>
                    /\ ret[r][1].error # <<>>
                    /\ ret[r][1].error[1].kind \in
                          {"circular_at", "dependency_not_found", "circular_remaining",
                           "key_error", "dependencies_not_satisfied",
                           "error_executing_step", "step_failed"}
                    /\ ErrorCondition(r)

\* A run whose second step's action raised has returned a failed result.
C7_Witness ==
    \E r \in Runs :
        /\ HasReturned(r)
        /\ Len(calls[r]) = 2 /\ LastCall(r).outcome[1].raised
        /\ ret[r][1].status = "failed"
        /\ ret[r][1].error[1].kind = "error_executing_step"

\* C8 as stated: every change of self.status is pending -> running,
\* running -> completed or running -> failed.
C8_StatusMachine ==
    [][status' # status =>
          <<status, status'>> \in {<<"pending", "running">>,
                                   <<"running", "completed">>,
                                   <<"running", "failed">>}]_vars

\* C8 amended: every change of self.status is pending -> running,
\* running -> completed, running -> failed, or, when run is invoked again on
\* the instance, completed -> running or failed -> running.
C8_StatusMachineWithRerun ==
    [][status' # status =>
          <<status, status'>> \in {<<"pending", "running">>,
                                   <<"running", "completed">>,
                                   <<"running", "failed">>,
                                   <<"completed", "running">>,
                                   <<"failed", "running">>}]_vars

\* A second run invocation has begun on the instance and status is running.
C8_Witness ==
    /\ pc[1] = "returned" /\ pc[2] = "started"
    /\ status = "running"

\* C9: when validation fails, status is failed and run returns failed with
\* the validation message, steps_completed = 0 and total_steps = the number
\* of steps.
C9_ValidationFailure ==
    \A r \in Runs :
        (HasReturned(r) /\ ~validate(steps).ok) =>
            /\ status = "failed"
            /\ ret[r][1] = WorkflowResult("failed", <<>>,
                              <<WorkflowFailed(validate(steps).error[1])>>,
                              0, Len(steps))

\* A run of three steps, one with an unknown dependency, has returned.
C9_Witness ==
    \E r \in Runs :
        /\ HasReturned(r) /\ Len(steps) = 3
        /\ ~validate(steps).ok
        /\ ret[r][1].error[1].kind = "dependency_not_found"
        /\ ret[r][1].total_steps = 3

C11_ResultsAccumulate ==
    \A r \in Runs :
        HasReturned(r) =>
            /\ \A k \in 1..Len(calls[r]) :
                  IsSuccess(calls[r][k].outcome[1]) =>
                     /\ calls[r][k].step \in DOMAIN self_results
                     /\ self_results[calls[r][k].step] = calls[r][k].outcome[1].value
            /\ ret[r][1].status = "completed" =>
                  DOMAIN self_results = StepNames(steps)

\* C12: every run invocation starts from an empty results map.  Also in a
\* second run on the same instance, the results the dependency re-check
\* reads, the dependency entries of the step contexts and the returned output
\* hold only results that actions returned during this very run.
C12_FreshResults ==
    \A r \in Runs :
        /\ pc[r] = "started" => results[r] = <<>>
        /\ pc[r] = "await" =>
              \A key \in DOMAIN results[r] :
                 /\ results[r][key] = SuccessResult(key, r)
                 /\ \E k \in 1..(Len(calls[r]) - 1) :
                       /\ calls[r][k].step = key
                       /\ calls[r][k].outcome = <<Returned(results[r][key])>>
        /\ \A k \in 1..Len(calls[r]) :
              \A dep \in Range(StepOf(steps, calls[r][k].step).depends_on) :
                 calls[r][k].context[dep] = SuccessResult(dep, r)
        /\ (HasReturned(r) /\ ret[r][1].output # <<>>) =>
              \A key \in DOMAIN ret[r][1].output[1] :
                 ret[r][1].output[1][key] = SuccessResult(key, r)

\* The second run on the instance is about to execute its second step, which
\* depends on the first; the first run has returned.
C12_Witness ==
    /\ pc[1] = "returned" /\ pc[2] = "await"
    /\ Len(calls[2]) = 2
    /\ DOMAIN results[2] = {calls[2][1].step}
    /\ calls[2][1].step \in Range(StepOf(steps, calls[2][2].step).depends_on)

\* C13: in every WorkflowResult returned by run, status is completed or
\* failed, output is present exactly when status is completed, and error is
\* present exactly when status is failed.
C13_ResultShape ==
    \A r \in Runs :
        HasReturned(r) =>
            /\ ret[r][1].status \in {"completed", "failed"}
            /\ ret[r][1].output # <<>> <=> ret[r][1].status = "completed"
            /\ ret[r][1].error # <<>> <=> ret[r][1].status = "failed"

\* A run has returned failed after two steps had succeeded: the result has an
\* error and no output.
C13_Witness ==
    \E r \in Runs :
        /\ HasReturned(r)
        /\ ret[r][1].status = "failed" /\ ret[r][1].steps_completed = 2
        /\ ret[r][1].output = <<>> /\ ret[r][1].error # <<>>

\* C14: whenever run returns a failed result because a step's action raised
\* or returned a non-success result (a result that is not a mapping
\* included), the error message names that step; for a raised exception it
\* carries the exception's text, and for a reported failure the error text
\* the action put into its result.
C14_ErrorNamesStep ==
    \A r \in Runs :
        (HasReturned(r) /\ calls[r] # <<>> /\ ~IsSuccess(LastCall(r).outcome[1])) =>
            LET o == LastCall(r).outcome[1]
                e == ret[r][1].error[1]
            IN /\ ret[r][1].status = "failed"
               /\ e.name = LastCall(r).step
               /\ e.kind = IF o.raised \/ ~o.value.mapping
                           THEN "error_executing_step" ELSE "step_failed"
               /\ o.raised => e.text = o.exc
               /\ (~o.raised /\ o.value.mapping /\ o.value.error # <<>>) =>
                     e.text = o.value.error[1]

\* The second step's action returned a failure result with its own error
\* text, after the first step succeeded.
C14_Witness ==
    \E r \in Runs :
        /\ HasReturned(r) /\ Len(calls[r]) = 2
        /\ LastCall(r).outcome = <<Returned(ReportedFailure)>>
        /\ ret[r][1].error[1].name = LastCall(r).step
        /\ ret[r][1].error[1].text = ReportedFailure.error[1]

\* C15: provided every awaited step action eventually returns or raises,
\* every run invocation eventually returns a WorkflowResult, and at its return
\* self.status is completed or failed and equals the status of the returned
\* result (it is not left at running).
C15_RunTerminates ==
    \A r \in Runs :
        (pc[r] = "started") ~>
            (/\ HasReturned(r)
             /\ status \in {"completed", "failed"}
             /\ status = ret[r][1].status)

\* The second run on the instance has returned after three step actions, the
\* last of which raised, and self.status is the status of its result.
C15_Witness ==
    /\ pc[1] = "returned" /\ HasReturned(2)
    /\ Len(calls[2]) = 3 /\ LastCall(2).outcome[1].raised
    /\ status = ret[2][1].status

\* C16 as stated: when validate fails with the circular-dependency error, the
\* step the error names lies on a dependency cycle (it transitively depends
\* on itself).
C16_NamedStepOnCycle ==
    \A r \in Runs :
        (HasReturned(r) /\ ret[r][1].error # <<>>
            /\ ret[r][1].error[1].kind = "circular_at") =>
                /\ validate(steps).error = <<Msg("circular_at", ret[r][1].error[1].name, {}, "")>>
                /\ OnCycle(steps, ret[r][1].error[1].name)

\* The steps that lie on a dependency cycle or transitively depend on a step
\* that lies on one.
OnOrBehindCycle(S) ==
    {n \in StepNames(S) : \E m \in Reachable(S, {n}) : OnCycle(S, m)}

\* C17: for a step set whose dependencies are all known,
\* _get_execution_order raises exactly when the dependency graph has a cycle,
\* and the remaining steps it reports are exactly the steps that lie on a
\* cycle or transitively depend on a step that lies on a cycle.
C17_RemainingSteps ==
    ~HasUnknown(steps) =>
        \A c \in Calls :
            /\ order_call[c].pc = "returned" => ~HasCycle(steps)
            /\ order_call[c].pc = "raised" =>
                  /\ HasCycle(steps)
                  /\ order_call[c].error =
                        <<Msg("circular_remaining", "", OnOrBehindCycle(steps), "")>>

\* A call has raised for three steps: one dependency-free, one depending on
\* itself, and one off the cycle that depends on the self-dependent step.
C17_Witness ==
    \E c \in Calls :
        /\ order_call[c].pc = "raised" /\ ~HasUnknown(steps)
        /\ Len(steps) = 3
        /\ Len(order_call[c].execution_order) = 1
        /\ \E n \in order_call[c].error[1].names : ~OnCycle(steps, n)

\* The step names in names, in the insertion order of the steps mapping.
InInsertionOrder(S, names) ==
    SelectSeq([k \in 1..Len(S) |-> S[k].name], LAMBDA n : n \in names)

\* Reference FIFO Kahn's algorithm over sets: the head of the queue is
\* output; the steps that wait and whose dependencies have now all been
\* output join the back of the queue, in insertion order.
RECURSIVE ReferenceKahn(_, _, _)
ReferenceKahn(S, queue, out) ==
    IF queue = <<>> THEN out
    ELSE LET done == Range(out) \cup {Head(queue)}
             waiting == StepNames(S) \ (done \cup Range(queue))
             ready == {n \in waiting : Range(StepOf(S, n).depends_on) \subseteq done}
         IN ReferenceKahn(S, Tail(queue) \o InInsertionOrder(S, ready),
                          Append(out, Head(queue)))

\* The steps without dependencies.
DependencyFree(S) == {n \in StepNames(S) : StepOf(S, n).depends_on = <<>>}

ReferenceOrder(S) == ReferenceKahn(S, InInsertionOrder(S, DependencyFree(S)), <<>>)

\* C18: the sequence _get_execution_order returns is the one of the
\* reference FIFO Kahn's algorithm over the insertion-ordered steps: the
\* steps without dependencies first, in insertion order, then every other
\* step in the order in which its dependencies became resolved.
C18_FifoKahn ==
    \A c \in Calls :
        order_call[c].pc = "returned" =>
            /\ order_call[c].execution_order = ReferenceOrder(steps)
            /\ SubSeq(order_call[c].execution_order, 1,
                      Cardinality(DependencyFree(steps)))
                  = InInsertionOrder(steps, DependencyFree(steps))

\* A call has returned for three steps of which the second and the third
\* both depend on the first: they follow it in insertion order.
C18_Witness ==
    \E c \in Calls :
        /\ order_call[c].pc = "returned"
        /\ Len(steps) = 3
        /\ steps[1].depends_on = <<>>
        /\ steps[2].depends_on = <<steps[1].name>>
        /\ steps[3].depends_on = <<steps[1].name>>
        /\ order_call[c].execution_order = <<steps[1].name, steps[2].name, steps[3].name>>

\* C19: validate and _get_execution_order are pure.  No step of a call of
\* either, returning or raising, changes the steps mapping (the depends_on
\* lists included), self.status or self.results.
C19_PureChecks ==
    [][/\ steps' = steps
       /\ status' = status
       /\ self_results' = self_results]_vars

\* validate and a call of _get_execution_order have both raised for three
\* steps, and a second call of _get_execution_order is in its loop.
C19_Witness ==
    /\ validate_call.pc = "raised"
    /\ \E c \in Calls : order_call[c].pc = "raised"
    /\ \E c \in Calls : order_call[c].pc = "loop"
    /\ Len(steps) = 3
    /\ status = "pending" /\ self_results = <<>>

\* C20: in a run of a workflow that passed validation, whenever a step is
\* about to be executed every name in its depends_on is a key of the run's
\* results, and the failure "Dependencies not satisfied" of the defensive
\* re-check is never returned.
C20_DependenciesSatisfied ==
    \A r \in Runs :
        /\ pc[r] = "await" =>
              /\ validate(steps).ok
              /\ DepsSatisfied(StepOf(steps, CurrentStep(r)), results[r])
              /\ LastCall(r).step = CurrentStep(r)
        /\ HasReturned(r) /\ ret[r][1].error # <<>> =>
              ret[r][1].error[1].kind # "dependencies_not_satisfied"

\* The third step of a run, which depends on both earlier steps, is about to
\* be executed with both results recorded.
C20_Witness ==
    \E r \in Runs :
        /\ pc[r] = "await" /\ i[r] = 3
        /\ Cardinality(Range(StepOf(steps, CurrentStep(r)).depends_on)) = 2
        /\ Range(StepOf(steps, CurrentStep(r)).depends_on) = DOMAIN results[r]

\* C21: under any sequence of run invocations self.status is never paused or
\* cancelled, and once the first run has begun it is never pending again.
C21_NoPausedCancelledPending ==
    /\ status \notin {"paused", "cancelled"}
    /\ status \in {"pending", "running", "completed", "failed"}
    /\ (\E r \in Runs : pc[r] # "idle") => status # "pending"

\* Two runs have returned, the second one failing in validation.
C21_Witness ==
    /\ pc[1] = "returned" /\ pc[2] = "returned"
    /\ HasReturned(2) /\ ~validate(steps).ok
    /\ status = "failed"

\* C22: within one run invocation the step actions are invoked one at a time
\* in the sequence of the execution order: no step's action is invoked twice,
\* at most one invocation is awaited at a time and it is the latest, and the
\* action at position k+1 is invoked only after the action at position k
\* returned a success result.
C22_OneAtATime ==
    \A r \in Runs :
        /\ \A j \in 1..Len(calls[r]), k \in 1..Len(calls[r]) :
              calls[r][j].step = calls[r][k].step => j = k
        /\ \A k \in 1..Len(calls[r]) :
              /\ pc[r] = "await" => calls[r][k].step = execution_order[r][k]
              /\ calls[r][k].outcome = <<>> => (k = Len(calls[r]) /\ pc[r] = "await")
              /\ k < Len(calls[r]) =>
                    /\ calls[r][k].outcome # <<>>
                    /\ IsSuccess(calls[r][k].outcome[1])
        /\ pc[r] = "await" =>
              (Len(calls[r]) = i[r] /\ LastCall(r).outcome = <<>>)

\* The third step's action is awaited after the first two returned success
\* results.
C22_Witness ==
    \E r \in Runs :
        /\ pc[r] = "await" /\ Len(calls[r]) = 3
        /\ LastCall(r).outcome = <<>>
        /\ IsSuccess(calls[r][1].outcome[1]) /\ IsSuccess(calls[r][2].outcome[1])

\* The number of execute_step invocations of run r that returned a success
\* result.
SucceededCount(r) ==
    Cardinality({k \in 1..Len(calls[r]) :
                    calls[r][k].outcome # <<>> /\ IsSuccess(calls[r][k].outcome[1])})

\* C23: in every WorkflowResult returned by run, steps_completed is the
\* number of steps whose action was invoked and returned a success result
\* during that run, 0 <= steps_completed <= total_steps, and steps_completed
\* = total_steps exactly when status is completed.
C23_StepsCompleted ==
    \A r \in Runs :
        HasReturned(r) =>
            /\ ret[r][1].steps_completed = SucceededCount(r)
            /\ 0 <= ret[r][1].steps_completed
            /\ ret[r][1].steps_completed <= ret[r][1].total_steps
            /\ ret[r][1].steps_completed = ret[r][1].total_steps
                  <=> ret[r][1].status = "completed"

\* A run of three steps has returned failed with two steps completed: the
\* third step's action returned a result without a status.
C23_Witness ==
    \E r \in Runs :
        /\ HasReturned(r) /\ Len(calls[r]) = 3
        /\ LastCall(r).outcome = <<Returned(EmptyMapping)>>
        /\ ret[r][1].steps_completed = 2 /\ ret[r][1].total_steps = 3

\* Run r has been called and has not returned.
InProgress(r) == pc[r] \in {"started", "await"}

\* C24 as stated: whenever a run has started and not yet returned,
\* self.status is running, also when two run invocations on the instance
\* interleave at the awaits of execute_step.
C24_RunningWhileInProgress ==
    \A r \in Runs : InProgress(r) => status = "running"

\* C24 amended: while a run is in progress, self.status is running as long
\* as no run invocation on the instance has returned since the latest one
\* began; once an overlapping invocation has returned, self.status is the
\* status of a result returned since then (completed or failed), although
\* the other run is still in progress.  (ret holds the results returned
\* since the latest run began.)
C24_StatusOfLatestWriter ==
    \A r \in Runs :
        InProgress(r) =>
            IF \A q \in Runs : ~HasReturned(q)
            THEN status = "running"
            ELSE \E q \in Runs : HasReturned(q) /\ status = ret[q][1].status

\* One run is suspended at its await while an overlapping run has returned
\* completed: self.status is completed.
C24_Witness ==
    \E r \in Runs, q \in Runs :
        /\ pc[r] = "await" /\ Len(calls[r]) = 2
        /\ HasReturned(q) /\ ret[q][1].status = "completed"
        /\ status = "completed"

\* The outcomes of the execute_step invocations of run r, in order.
OutcomesOf(r) == [k \in 1..Len(calls[r]) |-> calls[r][k].outcome[1]]

\* The error a run alone reports for the outcome o of the step named n.
AloneStepError(n, o) ==
    IF o.raised THEN Msg("error_executing_step", n, {}, o.exc)
    ELSE IF ~o.value.mapping
         THEN Msg("error_executing_step", n, {}, "object has no attribute 'get'")
    ELSE Msg("step_failed", n, {},
             IF o.value.error = <<>> THEN "Unknown error" ELSE o.value.error[1])

\* The WorkflowResult of a run that is alone on the instance and whose step
\* actions end with the outcomes outs, in order: a reference written over
\* the whole outcome sequence.
AloneResult(S, outs) ==
    IF ~validate(S).ok
    THEN WorkflowResult("failed", <<>>, <<WorkflowFailed(validate(S).error[1])>>,
                        0, Len(S))
    ELSE LET order == ReferenceOrder(S)
             bad == {k \in 1..Len(outs) : ~IsSuccess(outs[k])}
         IN IF bad = {}
            THEN WorkflowResult("completed",
                    <<[n \in Range(order) |->
                          outs[CHOOSE k \in 1..Len(order) : order[k] = n].value]>>,
                    <<>>, Len(order), Len(order))
            ELSE LET k == CHOOSE j \in bad : \A h \in bad : j <= h
                 IN WorkflowResult("failed", <<>>,
                                   <<AloneStepError(order[k], outs[k])>>,
                                   k - 1, Len(order))

\* C25: when two run invocations on the instance interleave at the awaits of
\* execute_step, each returns the WorkflowResult it would return alone with
\* the same step outcomes, and what one run recorded is never in the other
\* run's results (read by the dependency re-check), step contexts or output.
C25_AsIfAlone ==
    \A r \in Runs :
        /\ HasReturned(r) => ret[r][1] = AloneResult(steps, OutcomesOf(r))
        /\ pc[r] = "await" =>
              /\ DOMAIN results[r] = {calls[r][k].step : k \in 1..(Len(calls[r]) - 1)}
              /\ \A key \in DOMAIN results[r] : results[r][key] = SuccessResult(key, r)
        /\ \A k \in 1..Len(calls[r]) :
              \A dep \in Range(StepOf(steps, calls[r][k].step).depends_on) :
                 calls[r][k].context[dep] = SuccessResult(dep, r)

\* Two overlapping runs of a two-step workflow have both returned, one
\* completed and one failed at its second step.
C25_Witness ==
    \E r \in Runs, q \in Runs :
        /\ HasReturned(r) /\ HasReturned(q)
        /\ Len(calls[r]) = 2 /\ Len(calls[q]) = 2
        /\ StepOf(steps, calls[r][2].step).depends_on # <<>>
        /\ ret[r][1].status = "completed" /\ ret[q][1].status = "failed"

\* Every step invoked so far in run r was passed, under each key of the
\* initial context that is not one of its own dependencies, the initial
\* value.
StepsSeeInitialValues(r) ==
    \A k \in 1..Len(calls[r]) :
        \A key \in DOMAIN context[r] \ Range(StepOf(steps, calls[r][k].step).depends_on) :
            /\ key \in DOMAIN calls[r][k].context
            /\ calls[r][k].context[key] = context[r][key]

\* C26: run never adds, removes or rebinds a key of the caller's
\* initial_context mapping.  Each step gets its own copy: a dependency result
\* whose name is also a key of the initial context replaces it only in the
\* contexts of the steps that declare that dependency, and every other step
\* is passed the initial value.
C26_InitialContextUntouched ==
    [][\A r \in Runs :
          /\ (InProgress(r) /\ pc'[r] \in {"started", "await"}) =>
                context'[r] = context[r]
          /\ pc'[r] = "await" => StepsSeeInitialValues(r)']_vars

\* With the first step's name as a key of the initial context: the second
\* step, which depends on the first, was passed the first step's result, and
\* the third step, which does not, is passed the initial value.
C26_Witness ==
    \E r \in Runs :
        /\ pc[r] = "await" /\ Len(calls[r]) = 3
        /\ NamePool[1] \in DOMAIN context[r]
        /\ context[r][NamePool[1]] = CtxValue
        /\ calls[r][2].context[NamePool[1]] = SuccessResult(NamePool[1], r)
        /\ calls[r][3].context[NamePool[1]] = CtxValue

\* C27: when an Agent.execute_workflow call returns, the agent's status is
\* COMPLETED if the returned result is completed and ERROR otherwise; and
\* whether the call returned or raised, the agent's current workflow is cleared.
C27_StatusFollowsResult ==
    [][\A c \in ExecCalls :
          (exec_call[c].pc = "await" /\ exec_call'[c].pc \in {"returned", "raised"})
          => LET a == exec_call[c].agent IN
             /\ agents'[a].current_workflow = <<>>
             /\ exec_call'[c].pc = "returned"
                => agents'[a].status =
                      IF exec_call'[c].result = <<"completed">>
                      THEN "completed" ELSE "error"]_vars

\* A call returned a failed result and left its agent in ERROR with no current
\* workflow, while a later call on the same agent is still awaiting its run.
C27_Witness ==
    \E c, d \in ExecCalls :
        /\ exec_call[c].pc = "returned"
        /\ exec_call[c].result = <<"failed">>
        /\ exec_call[d].pc = "await"
        /\ exec_call[d].agent = exec_call[c].agent
        /\ agents[exec_call[c].agent].status = "error"
        /\ agents[exec_call[c].agent].current_workflow = <<>>

\* C28: once AgentManager.stop_agent has returned True for an agent whose
\* status was RUNNING, that agent is PAUSED (IDLE when forced) and the
\* execute_workflow call that was in progress does not change its status again;
\* for an unknown name stop_agent returns False and changes nothing.
C28_StoppedStaysStopped ==
    [][/\ \A c \in ExecCalls :
             (exec_call[c].stopped /\ exec_call'[c].pc # exec_call[c].pc)
             => agents'[exec_call[c].agent].status
                   = agents[exec_call[c].agent].status
       /\ (stop_call' # stop_call /\ stop_call'[1].was_running)
          => /\ stop_call'[1].value
             /\ agents'[stop_call'[1].name].status
                   = IF stop_call'[1].force THEN "idle" ELSE "paused"
       /\ (stop_call' # stop_call /\ stop_call'[1].name \notin DOMAIN agents)
          => /\ ~stop_call'[1].value
             /\ agents' = agents
             /\ exec_call' = exec_call]_vars

\* C29: after any sequence of AgentMemory.add_short_term calls short_term holds
\* at most 100 items and is the most recent ones, in insertion order, of the
\* items added; a call grows it by one item, except the call that would make it
\* 101 items, which cuts it to the last 50.
C29_RecentSuffix ==
    [][added' = added + 1
       => /\ Len(short_term') <= ShortTermLimit
          /\ short_term' = [k \in 1..Len(short_term') |->
                               added' - Len(short_term') + k]
          /\ Len(short_term') = IF Len(short_term) = ShortTermLimit
                                THEN ShortTermKeep
                                ELSE Len(short_term) + 1]_vars

\* The second cut: the 152nd call found 100 items and left the last 50.
C29_Witness ==
    /\ added = ShortTermLimit + ShortTermKeep + 2
    /\ Len(short_term) = ShortTermKeep
    /\ short_term[1] = added - ShortTermKeep + 1
    /\ short_term[ShortTermKeep] = added

\* C30: every ToolRegistry() construction yields the one shared registry and
\* none resets its tool map: a name leaves the map only by being unregistered
\* and is never rebound while it is there.  So once an Agent has registered a
\* tool named n, Agent.register_tool with a tool named n on any Agent raises
\* ValueError and leaves the registry and that agent's tools map unchanged,
\* until n is unregistered.
C30_NameTakenUntilUnregistered ==
    [][/\ tool_registry'.instance /\ tool_registry'.initialized
       /\ \A n \in DOMAIN tool_registry.tools :
             IF n \in DOMAIN tool_registry'.tools
             THEN tool_registry'.tools[n] = tool_registry.tools[n]
             ELSE registry_call' = RegistryCall("unregister", "", n, 0, FALSE, TRUE)
       /\ (registry_call' # registry_call /\ registry_call'[1].op = "register_tool")
          => LET call == registry_call'[1] IN
             IF call.name \in DOMAIN tool_registry.tools
             THEN /\ call.raised
                  /\ tool_registry' = tool_registry
                  /\ agents' = agents
             ELSE /\ ~call.raised
                  /\ call.name \in DOMAIN tool_registry'.tools
                  /\ call.name \in DOMAIN agents'[call.agent].tools]_vars

\* One agent holds the tool it registered under n1; another agent, created by a
\* later construction of the registry, was refused a second tool of that name
\* and holds none, and the registry still binds n1 to the first tool.
C30_Witness ==
    \E a, b \in DOMAIN agents :
        /\ a # b
        /\ "n1" \in DOMAIN agents[a].tools
        /\ agents[a].tools["n1"].id = 1
        /\ registry_call = RegistryCall("register_tool", b, "n1", 2, TRUE, FALSE)
        /\ "n1" \notin DOMAIN agents[b].tools
        /\ "n1" \in DOMAIN tool_registry.tools
        /\ tool_registry.tools["n1"].id = 1

====
